---- MODULE Spec2Model ----
(***************************************************************************)
(* Lab Record Generator API (src/main.py): the two state-changing          *)
(* endpoints, POST /upload-logo and POST /generate-docx, over the two      *)
(* pieces of storage they share: the logo files next to main.py and the    *)
(* temporary directory /tmp.                                               *)
(*                                                                         *)
(* Text that the code inspects or formats character by character (paths,   *)
(* register numbers, file names, content types, sequence numbers) is a     *)
(* sequence of one-character strings. Text that is only copied (titles,    *)
(* dates, names) is a TLA+ string. Both handlers are `async def` bodies    *)
(* without an await, so each runs as one step of the event loop; a request *)
(* is in flight from its arrival until its response has been sent.         *)
(***************************************************************************)
EXTENDS Integers, Sequences, FiniteSets, TLC

VARIABLES
    logo,        \* base_dir: extension -> content of college_logo.<ext>, or NoFile
    fs,          \* every other file: resolved path -> content
    pc,          \* request -> "idle" | "pending" | "responding" | "done"
    data,        \* request -> the RecordData payload it carries
    status,      \* request -> HTTP status of its response (0: none yet)
    stage,       \* request -> step of generate_docx that raised ("" : none)
    doc,         \* request -> the Document object when generate_docx ended
    response,    \* request -> the FileResponse generate_docx returned
    delivered,   \* request -> the document streamed to the client
    staged,      \* request -> paths of the code images it wrote to /tmp
    overlapped,  \* request -> requests that were in flight together with it
    touched,     \* request -> requests whose temporary files it read, overwrote or deleted
    upload       \* response of the latest upload-logo call

vars == <<logo, fs, pc, data, status, stage, doc, response, delivered,
          staged, overlapped, touched, upload>>

----------------------------------------------------------------------------
(* Bounds                                                                   *)

\* longest experiments list of a request in Spec
MaxExps == 2

\* longest experiments list of a request in SpecPair
MaxPairExps == 2

\* longest experiments list of a request in SpecRows
MaxRows == 100

Requests == {"A", "B"}

----------------------------------------------------------------------------
(* Text helpers                                                             *)

DigitChar == <<"0", "1", "2", "3", "4", "5", "6", "7", "8", "9">>

\* str(n) for n >= 0
RECURSIVE str(_)
str(n) == IF n < 10 THEN <<DigitChar[n + 1]>>
          ELSE str(n \div 10) \o <<DigitChar[(n % 10) + 1]>>

\* a zfill that cuts the text down to the requested width
RECURSIVE zfill_truncating(_, _)
zfill_truncating(s, width) ==
    IF Len(s) > width THEN SubSeq(s, Len(s) - width + 1, Len(s))
    ELSE IF Len(s) = width THEN s
    ELSE zfill_truncating(<<"0">> \o s, width)

\* str.zfill(width) on unsigned text
RECURSIVE zfill(_, _)
zfill(s, width) == IF Len(s) >= width THEN s ELSE zfill(<<"0">> \o s, width)

\* str.split(sep) for a one-character separator
RECURSIVE split(_, _)
split(s, sep) ==
    IF s = <<>> THEN << <<>> >>
    ELSE LET rest == split(Tail(s), sep)
         IN  IF Head(s) = sep THEN << <<>> >> \o rest
             ELSE << <<Head(s)>> \o rest[1] >> \o Tail(rest)

LowerChar(c) ==
    CASE c = "P" -> "p" [] c = "N" -> "n" [] c = "G" -> "g"
      [] c = "J" -> "j" [] c = "E" -> "e" [] OTHER -> c

\* str.lower()
lower(s) == [i \in 1..Len(s) |-> LowerChar(s[i])]

\* str.startswith(prefix)
startswith(s, prefix) ==
    Len(s) >= Len(prefix) /\ SubSeq(s, 1, Len(prefix)) = prefix

Contains(s, c) == \E i \in 1..Len(s) : s[i] = c

----------------------------------------------------------------------------
(* Storage                                                                  *)

Tmp == <<"t", "m", "p">>
App == <<"a", "p", "p">>

\* the directories that exist: /, /tmp and base_dir (the directory of main.py)
Dirs == {<<>>, <<Tmp>>, <<App>>}

\* follows the directory names of a path from cur; ".." of the root is the root
RECURSIVE walk(_, _)
walk(comps, cur) ==
    IF comps = <<>> THEN [ok |-> TRUE, dir |-> cur]
    ELSE LET c == Head(comps)
         IN  IF c = <<>> \/ c = <<".">> THEN walk(Tail(comps), cur)
             ELSE IF c = <<".", ".">>
                  THEN walk(Tail(comps),
                            IF cur = <<>> THEN cur ELSE SubSeq(cur, 1, Len(cur) - 1))
             ELSE IF (cur \o <<c>>) \in Dirs THEN walk(Tail(comps), cur \o <<c>>)
             ELSE [ok |-> FALSE, dir |-> cur]

\* where the operating system puts the file an absolute path names
resolve(path) ==
    LET comps  == split(path, "/")
        parent == walk(SubSeq(comps, 1, Len(comps) - 1), <<>>)
        name   == comps[Len(comps)]
    IN  [ok  |-> parent.ok /\ name \notin {<<>>, <<".">>, <<".", ".">>},
         key |-> parent.dir \o <<name>>]

exists(files, path) ==
    LET at == resolve(path) IN at.ok /\ at.key \in DOMAIN files

\* open(path, 'wb') and write: fails when the directory does not exist
write_file(files, path, content) ==
    LET at == resolve(path)
    IN  IF ~at.ok THEN [ok |-> FALSE, fs |-> files]
        ELSE [ok |-> TRUE,
              fs |-> [k \in DOMAIN files \cup {at.key} |->
                         IF k = at.key THEN content ELSE files[k]]]

\* os.remove(path) of an existing file
remove(files, path) ==
    LET at == resolve(path) IN [k \in DOMAIN files \ {at.key} |-> files[k]]

\* the request that wrote the file at path, if another than r
other_owner(files, path, r) ==
    LET at == resolve(path)
    IN  IF at.ok /\ at.key \in DOMAIN files /\ files[at.key].by # r
        THEN {files[at.key].by} ELSE {}

----------------------------------------------------------------------------
(* Logo storage and POST /upload-logo                                       *)

Png  == <<"p", "n", "g">>
Jpg  == <<"j", "p", "g">>
Jpeg == <<"j", "p", "e", "g">>

NoFile == [fmt |-> "absent", pixels |-> ""]

\* what PIL and python-docx can decode
IsImage(content) == content.fmt \in {"png", "jpeg"}

ImagePrefix == <<"i", "m", "a", "g", "e", "/">>

\* the except clause of upload_logo: every exception, the handler's own
\* HTTPException(400) included, becomes HTTPException(500)
upload_logo_except(e) ==
    [status |-> 500, detail |-> <<"Error uploading logo: ", e.detail>>]

\* the body of the try block: the logo storage it leaves and what it returned
\* or raised
upload_logo_try(lg, file) ==
    IF ~file.content_type.given
    THEN [logo |-> lg, raised |-> TRUE,
          e |-> [status |-> 0, detail |-> "AttributeError"]]
    ELSE IF ~startswith(file.content_type.v, ImagePrefix)
    THEN [logo |-> lg, raised |-> TRUE,
          e |-> [status |-> 400, detail |-> "400: File must be an image"]]
    ELSE
    LET parts == split(file.filename, ".")
        ext   == lower(parts[Len(parts)])
    IN  IF ext \notin {Png, Jpg, Jpeg}
        THEN [logo |-> lg, raised |-> TRUE,
              e |-> [status |-> 400,
                     detail |-> "400: Only PNG, JPG, JPEG files allowed"]]
        ELSE
        LET copied == [lg EXCEPT ![ext] = file.file]
        IN  IF ext \in {Jpg, Jpeg}
            THEN IF ~IsImage(copied[ext])
                 THEN [logo |-> copied, raised |-> TRUE,
                       e |-> [status |-> 0, detail |-> "UnidentifiedImageError"]]
                 ELSE [logo |-> [copied EXCEPT
                                    ![Png] = [fmt |-> "png",
                                              pixels |-> copied[ext].pixels],
                                    ![ext] = NoFile],
                       raised |-> FALSE,
                       e |-> [status |-> 200, detail |-> "Logo uploaded successfully"]]
            ELSE [logo |-> copied, raised |-> FALSE,
                  e |-> [status |-> 200, detail |-> "Logo uploaded successfully"]]

upload_logo(lg, file) ==
    LET t == upload_logo_try(lg, file)
    IN  [logo |-> t.logo,
         resp |-> IF t.raised THEN upload_logo_except(t.e)
                  ELSE [status |-> 200, detail |-> <<t.e.detail>>]]

----------------------------------------------------------------------------
(* Code Generator                                                           *)

\* the most bytes a version-40 symbol holds at error correction L; beyond it
\* qr.make(fit=True) raises DataOverflowError
QRMaxBytes == 2953

NoPicture == [data |-> "", side |-> 0]

\* a code generator that returns a blank image where the data does not fit
create_qr_code_lenient(url, size) ==
    [ok |-> TRUE,
     image |-> IF url.len > QRMaxBytes THEN NoPicture
               ELSE [data |-> url.text, side |-> size]]

\* a url is [given, text, len]: its text and its length in bytes
create_qr_code(url, size) ==
    IF url.len > QRMaxBytes THEN [ok |-> FALSE, image |-> NoPicture]
    ELSE [ok |-> TRUE, image |-> [data |-> url.text, side |-> size]]

----------------------------------------------------------------------------
(* POST /generate-docx                                                      *)

\* pydantic's check of the body against RecordData and Experiment: every field
\* without a default must be given, and be a str; nothing else is checked
Validates(d) == \A i \in 1..Len(d.experiments) : d.experiments[i].github.given

TmpPrefix  == <<"/", "t", "m", "p", "/">>
QrPrefix   == TmpPrefix \o <<"q", "r", "_">>
PngSuffix  == <<".", "p", "n", "g">>
DocxSuffix == <<"_", "L", "a", "b", "_", "R", "e", "c", "o", "r", "d",
                ".", "d", "o", "c", "x">>

headers == <<"Exp", "Date", "Name of The Experiment", "QR Code", "Mark", "Signature">>

EmptyCell == [text |-> <<>>, picture |-> NoPicture]

\* a table one row short
add_table_short(rows, cols) ==
    [i \in 1..(rows - 1) |-> [j \in 1..cols |-> EmptyCell]]

\* doc.add_table(rows, cols)
add_table(rows, cols) == [i \in 1..rows |-> [j \in 1..cols |-> EmptyCell]]

NoDocument == [logo |-> NoFile, title |-> "", table |-> <<>>, name |-> "", reg |-> <<>>]

logo_files == <<Png, Jpg, Jpeg>>

\* lines 117-150: the logo, if a logo file exists, and the course title
embed_logo(h, d, lg) ==
    LET found == {i \in 1..Len(logo_files) : lg[logo_files[i]] # NoFile}
        first == CHOOSE i \in found : \A j \in found : i <= j
        titled == [h EXCEPT !.doc.title = d.course_title]
    IN  IF found = {} THEN titled
        ELSE IF ~IsImage(lg[logo_files[first]]) THEN [h EXCEPT !.error = "logo"]
        ELSE [titled EXCEPT !.doc.logo = lg[logo_files[first]]]

\* lines 152-172: the table and its header row
build_table(h, d) ==
    LET num_experiments == Len(d.experiments)
        table == add_table(num_experiments + 1, 6)
    IN  IF h.error # "" THEN h
        ELSE IF Len(table) < 1 THEN [h EXCEPT !.error = "table"]
        ELSE [h EXCEPT !.doc.table =
                 [table EXCEPT ![1] = [j \in 1..6 |->
                     [text |-> <<headers[j]>>, picture |-> NoPicture]]]]

\* lines 177-208: one turn of the loop, for the 0-based idx
fill_row(h, idx, exp, r) ==
    IF idx + 2 > Len(h.doc.table) THEN [h EXCEPT !.error = "row"]
    ELSE
    LET texts == [h EXCEPT
                    !.doc.table[idx + 2][1].text = zfill(str(idx + 1), 2),
                    !.doc.table[idx + 2][2].text = <<exp.date>>,
                    !.doc.table[idx + 2][3].text =
                        <<exp.title, "\n\n", exp.github.text>>]
        qr_img_data == create_qr_code(exp.github, 150)
        qr_filename == QrPrefix \o str(idx) \o PngSuffix
        written == write_file(h.fs, qr_filename,
                              [kind |-> "png", by |-> r, image |-> qr_img_data.image])
    IN  IF ~qr_img_data.ok THEN [texts EXCEPT !.error = "code"]
        ELSE IF ~written.ok THEN [texts EXCEPT !.error = "code"]
        ELSE [texts EXCEPT
                !.fs = written.fs,
                !.qr_images = Append(h.qr_images, qr_filename),
                !.touched = h.touched \cup other_owner(h.fs, qr_filename, r),
                !.doc.table[idx + 2][4].picture =
                    written.fs[resolve(qr_filename).key].image]

\* lines 176-208: the loop over data.experiments, from idx on
RECURSIVE fill_rows(_, _, _, _)
fill_rows(h, idx, d, r) ==
    IF h.error # "" \/ idx >= Len(d.experiments) THEN h
    ELSE fill_rows(fill_row(h, idx, d.experiments[idx + 1], r), idx + 1, d, r)

\* the name the output file is saved under
output_filename(d) == TmpPrefix \o d.register_number \o DocxSuffix

\* lines 210-235: the footer, and doc.save(output_filename)
save(h, d, r) ==
    LET footed == [h EXCEPT !.doc.name = d.student_name,
                            !.doc.reg = d.register_number]
        saved  == write_file(h.fs, output_filename(d),
                             [kind |-> "docx", by |-> r, doc |-> footed.doc])
    IN  IF h.error # "" THEN h
        ELSE IF ~saved.ok THEN [footed EXCEPT !.error = "save"]
        ELSE [footed EXCEPT
                !.fs = saved.fs,
                !.touched = h.touched \cup other_owner(h.fs, output_filename(d), r)]

NoResponse == [path |-> <<>>, filename |-> <<>>]

\* lines 237-241: the FileResponse
file_response(h, d) ==
    IF h.error # "" THEN h
    ELSE [h EXCEPT !.response = [path |-> output_filename(d),
                                 filename |-> output_filename(d)]]

\* lines 243-245: the code images of this request are removed
RECURSIVE remove_qr_images(_, _, _)
remove_qr_images(h, names, r) ==
    IF h.error # "" \/ names = <<>> THEN h
    ELSE remove_qr_images(
             IF exists(h.fs, Head(names))
             THEN [h EXCEPT !.fs = remove(h.fs, Head(names)),
                            !.touched = h.touched \cup other_owner(h.fs, Head(names), r)]
             ELSE h,
             Tail(names), r)

\* the handler, from its first line to its return or to its except clause
generate_docx(d, lg, files, r) ==
    LET h0 == [fs |-> files, doc |-> NoDocument, qr_images |-> <<>>,
               touched |-> {}, error |-> "", response |-> NoResponse]
        h1 == embed_logo(h0, d, lg)
        h2 == build_table(h1, d)
        h3 == fill_rows(h2, 0, d, r)
        h4 == save(h3, d, r)
        h5 == file_response(h4, d)
    IN  remove_qr_images(h5, h5.qr_images, r)

----------------------------------------------------------------------------
(* Inputs                                                                   *)

U1       == [given |-> TRUE,  text |-> "https://github.com/x/y", len |-> 22]
U2       == [given |-> TRUE,  text |-> "https://github.com/x/z", len |-> 22]
UEmpty   == [given |-> TRUE,  text |-> "", len |-> 0]
ULong    == [given |-> TRUE,  text |-> "https://github.com/x/yyy...", len |-> 3000]
UMissing == [given |-> FALSE, text |-> "", len |-> 0]

Experiments ==
    { [title |-> "Exp1", date |-> "2024-01-01", github |-> U1],
      [title |-> "Exp2", date |-> "",           github |-> U2],
      [title |-> "Exp3", date |-> "",           github |-> UEmpty],
      [title |-> "Exp4", date |-> "2024-01-04", github |-> ULong],
      [title |-> "Exp5", date |-> "",           github |-> UMissing] }

RegisterNumbers ==
    { <<"R", "A", "1">>,
      <<"a", "/", "b">>,
      <<".", ".", "/", "a", "p", "p", "/", "x">> }

Record(reg, exps) ==
    [course_title |-> "Intro to Systems", student_name |-> "Jane Doe",
     register_number |-> reg, experiments |-> exps]

\* the bodies of Spec: every register number, every list of up to MaxExps
\* experiments
Records ==
    { Record(reg, exps) :
      reg \in RegisterNumbers,
      exps \in UNION {[1..n -> Experiments] : n \in 0..MaxExps} }

\* the bodies of SpecLogo
LogoRecords ==
    { Record(<<"R", "A", "1">>, exps) :
      exps \in { <<>>, <<[title |-> "Exp1", date |-> "2024-01-01", github |-> U1]>> } }

\* the bodies of SpecPair: each request has a well-formed experiment of its
\* own, with its own url, and the experiment whose url does not fit a code
PairExperiments(r) ==
    { [title |-> "Exp4", date |-> "2024-01-04", github |-> ULong],
      IF r = "A" THEN [title |-> "Exp1", date |-> "2024-01-01", github |-> U1]
                 ELSE [title |-> "Exp2", date |-> "", github |-> U2] }

PairRecords(r) ==
    { Record(reg, exps) :
      reg \in { <<"R", "A", "1">>, <<"R", "A", "2">> },
      exps \in UNION {[1..n -> PairExperiments(r)] : n \in 0..MaxPairExps} }

\* the bodies of SpecRows: experiments lists of every length up to MaxRows, of
\* the two well-formed experiments in turn
RowRecords ==
    { Record(<<"R", "A", "1">>,
             [i \in 1..n |->
                 IF i % 2 = k
                 THEN [title |-> "Exp1", date |-> "2024-01-01", github |-> U1]
                 ELSE [title |-> "Exp2", date |-> "", github |-> U2]]) :
      n \in 0..MaxRows, k \in 0..1 }

UploadFiles ==
    { [filename |-> name, content_type |-> ct, file |-> bytes] :
      name \in { <<"l", ".", "p", "n", "g">>, <<"l", ".", "J", "P", "G">>,
                 <<"l", ".", "j", "p", "e", "g">>, <<"l", ".", "g", "i", "f">> },
      ct \in { [given |-> TRUE, v |-> <<"i", "m", "a", "g", "e", "/", "p", "n", "g">>],
               [given |-> TRUE, v |-> <<"i", "m", "a", "g", "e", "/", "j", "p", "e", "g">>],
               [given |-> TRUE, v |-> <<"t", "e", "x", "t", "/", "p", "l", "a", "i", "n">>],
               [given |-> FALSE, v |-> <<>>] },
      bytes \in { [fmt |-> "png", pixels |-> "crest1"],
                  [fmt |-> "jpeg", pixels |-> "crest2"],
                  [fmt |-> "none", pixels |-> "not an image"] } }

\* the uploads of Spec: a logo, or a file that is no image, as l.png
PngUploads ==
    { f \in UploadFiles :
        /\ f.filename = <<"l", ".", "p", "n", "g">>
        /\ f.content_type.v = <<"i", "m", "a", "g", "e", "/", "p", "n", "g">>
        /\ f.file.fmt # "jpeg" }

----------------------------------------------------------------------------
(* The server                                                               *)

NoRecord == [course_title |-> "", student_name |-> "", register_number |-> <<>>,
             experiments |-> <<>>]

NoFilename == <<>>
NoContentType == [given |-> FALSE, v |-> <<>>]

\* the latest upload-logo call: the filename and content type it came with,
\* whether it changed the logo storage, and its response
NoUpload == [status |-> 0, detail |-> <<>>, filename |-> NoFilename,
             content_type |-> NoContentType, changed |-> FALSE]

InFlight(r) == pc[r] \in {"pending", "responding"}

Init ==
    /\ logo = [ext \in {Png, Jpg, Jpeg} |-> NoFile]
    /\ fs = <<>>
    /\ pc = [r \in Requests |-> "idle"]
    /\ data = [r \in Requests |-> NoRecord]
    /\ status = [r \in Requests |-> 0]
    /\ stage = [r \in Requests |-> ""]
    /\ doc = [r \in Requests |-> NoDocument]
    /\ response = [r \in Requests |-> NoResponse]
    /\ delivered = [r \in Requests |-> NoDocument]
    /\ staged = [r \in Requests |-> <<>>]
    /\ overlapped = [r \in Requests |-> {}]
    /\ touched = [r \in Requests |-> {}]
    /\ upload = NoUpload

\* POST /upload-logo, from the request to its response
UploadLogo(file) ==
    /\ logo' = upload_logo(logo, file).logo
    /\ upload' = [status |-> upload_logo(logo, file).resp.status,
                  detail |-> upload_logo(logo, file).resp.detail,
                  filename |-> file.filename,
                  content_type |-> file.content_type,
                  changed |-> upload_logo(logo, file).logo # logo]
    /\ UNCHANGED <<fs, pc, data, status, stage, doc, response, delivered,
                   staged, overlapped, touched>>

\* a POST /generate-docx request arrives with body d
Receive(r, d) ==
    /\ pc[r] = "idle"
    /\ pc' = [pc EXCEPT ![r] = "pending"]
    /\ data' = [data EXCEPT ![r] = d]
    /\ overlapped' = [s \in Requests |->
           IF s = r THEN {t \in Requests \ {r} : InFlight(t)}
           ELSE IF InFlight(s) THEN overlapped[s] \cup {r}
           ELSE overlapped[s]]
    /\ UNCHANGED <<logo, fs, status, stage, doc, response, delivered, staged,
                   touched, upload>>

\* the body does not validate: 422, and generate_docx is not called
Reject(r) ==
    /\ pc[r] = "pending"
    /\ ~Validates(data[r])
    /\ pc' = [pc EXCEPT ![r] = "responding"]
    /\ status' = [status EXCEPT ![r] = 422]
    /\ stage' = [stage EXCEPT ![r] = "validation"]
    /\ UNCHANGED <<logo, fs, data, doc, response, delivered, staged, overlapped,
                   touched, upload>>

\* generate_docx runs on the validated body, to its return or its
\* HTTPException(500)
GenerateDocx(r) ==
    /\ pc[r] = "pending"
    /\ Validates(data[r])
    /\ LET h == generate_docx(data[r], logo, fs, r)
       IN  /\ fs' = h.fs
           /\ doc' = [doc EXCEPT ![r] = h.doc]
           /\ stage' = [stage EXCEPT ![r] = h.error]
           /\ status' = [status EXCEPT ![r] = IF h.error = "" THEN 200 ELSE 500]
           /\ response' = [response EXCEPT ![r] = h.response]
           /\ staged' = [staged EXCEPT ![r] = h.qr_images]
           /\ touched' = [touched EXCEPT ![r] = h.touched]
    /\ pc' = [pc EXCEPT ![r] = "responding"]
    /\ UNCHANGED <<logo, data, delivered, overlapped, upload>>

\* the response is sent: an error response as it is, a FileResponse by reading
\* the file at its path
Send(r) ==
    /\ pc[r] = "responding"
    /\ pc' = [pc EXCEPT ![r] = "done"]
    /\ IF status[r] = 200
       THEN IF exists(fs, response[r].path)
            THEN /\ delivered' = [delivered EXCEPT
                        ![r] = fs[resolve(response[r].path).key].doc]
                 /\ touched' = [touched EXCEPT
                        ![r] = @ \cup other_owner(fs, response[r].path, r)]
                 /\ UNCHANGED status
            ELSE /\ status' = [status EXCEPT ![r] = 500]
                 /\ UNCHANGED <<delivered, touched>>
       ELSE UNCHANGED <<status, delivered, touched>>
    /\ UNCHANGED <<logo, fs, data, stage, doc, response, staged, overlapped, upload>>

\* one client, every body; the logo is uploaded as l.png
Next ==
    \/ \E file \in PngUploads : UploadLogo(file)
    \/ \E d \in Records : Receive("A", d)
    \/ Reject("A")
    \/ GenerateDocx("A")
    \/ Send("A")

Spec == Init /\ [][Next]_vars

\* every upload, and one client that builds a short record
NextLogo ==
    \/ \E file \in UploadFiles : UploadLogo(file)
    \/ \E d \in LogoRecords : Receive("A", d)
    \/ GenerateDocx("A")
    \/ Send("A")

SpecLogo == Init /\ [][NextLogo]_vars

\* two clients at a time, and no logo
NextPair ==
    \/ \E r \in Requests : \E d \in PairRecords(r) : Receive(r, d)
    \/ \E r \in Requests : GenerateDocx(r)
    \/ \E r \in Requests : Send(r)

SpecPair == Init /\ [][NextPair]_vars

\* one client, long experiments lists
NextRows ==
    \/ \E d \in RowRecords : Receive("A", d)
    \/ GenerateDocx("A")
    \/ Send("A")

SpecRows == Init /\ [][NextRows]_vars

----------------------------------------------------------------------------
(* Properties                                                               *)

Answered(r) == pc[r] \in {"responding", "done"}

\* the files of /tmp and elsewhere that request r wrote and that still exist
FilesBy(r) == {k \in DOMAIN fs : fs[k].by = r}

HasSeparator(reg) == Contains(reg, "/")

\* C1: once a generate-docx request has finished, on the success path and on
\* every failure path, none of its code image files and no output file of its
\* register number is left in temporary storage.
C1_NoTransientArtifactLeft ==
    \A r \in Requests :
        pc[r] = "done" =>
            /\ \A i \in 1..Len(staged[r]) : ~exists(fs, staged[r][i])
            /\ ~exists(fs, output_filename(data[r]))
            /\ FilesBy(r) = {}

\* C2: a request with an experiment whose referenceUrl is the empty string is
\* rejected as a validation failure: generate_docx does not run for it, no
\* document element is built and no temporary file is written.
C2_EmptyReferenceRejected ==
    \A r \in Requests :
        ( /\ Answered(r)
          /\ \E i \in 1..Len(data[r].experiments) :
                 /\ data[r].experiments[i].github.given
                 /\ data[r].experiments[i].github.len = 0 )
        => /\ status[r] = 422
           /\ doc[r] = NoDocument
           /\ staged[r] = <<>>
           /\ FilesBy(r) = {}

\* every row of the document carries the code of its experiment's url, the url
\* fits a code, and the footer is in place
CompleteFor(document, d) ==
    /\ Len(document.table) = Len(d.experiments) + 1
    /\ \A i \in 1..Len(d.experiments) :
           /\ d.experiments[i].github.len <= QRMaxBytes
           /\ document.table[i + 1][4].picture =
                  [data |-> d.experiments[i].github.text, side |-> 150]
    /\ document.logo # NoFile => IsImage(document.logo)
    /\ document.title = d.course_title
    /\ document.name = d.student_name
    /\ document.reg = d.register_number

\* C3: a build in which a step failed ends with an error response, returns no
\* document and leaves no output document file written by it; a document is
\* returned only by a build whose every step completed.
C3_FailsWithoutDocument ==
    \A r \in Requests :
        Answered(r) =>
            /\ stage[r] # "" =>
                   /\ status[r] = 500 \/ (status[r] = 422 /\ stage[r] = "validation")
                   /\ response[r] = NoResponse
                   /\ delivered[r] = NoDocument
                   /\ \A k \in FilesBy(r) : fs[k].kind # "docx"
            /\ status[r] = 200 =>
                   /\ stage[r] = ""
                   /\ CompleteFor(doc[r], data[r])
                   /\ exists(fs, response[r].path)
            /\ delivered[r] # NoDocument =>
                   \E s \in Requests : status[s] = 200 /\ delivered[r] = doc[s]

\* a build failed at a code image of its second row, which left the first
\* row's image in /tmp and no document
C3_Witness ==
    /\ pc["A"] = "done"
    /\ stage["A"] = "code"
    /\ status["A"] = 500
    /\ Len(staged["A"]) = 1
    /\ exists(fs, staged["A"][1])

Digit(n) == DigitChar[n + 1]

\* the decimal text of k, for 0 < k < 1000, with at least 2 digits
Ordinal(k) ==
    IF k < 10 THEN <<"0", Digit(k)>>
    ELSE IF k < 100 THEN <<Digit(k \div 10), Digit(k % 10)>>
    ELSE <<Digit(k \div 100), Digit((k \div 10) % 10), Digit(k % 10)>>

\* C5: table row i+1 holds the experiment at input position i, and its
\* sequence-number cell is the decimal text of i+1, zero-padded to at least 2
\* digits and never truncated.
C5_RowsInInputOrder ==
    \A r \in Requests :
        (Answered(r) /\ status[r] = 200) =>
            \A i \in 0..(Len(data[r].experiments) - 1) :
                LET row == doc[r].table[i + 2]
                    exp == data[r].experiments[i + 1]
                IN  /\ row[1].text = Ordinal(i + 1)
                    /\ row[2].text = <<exp.date>>
                    /\ row[3].text = <<exp.title, "\n\n", exp.github.text>>
                    /\ row[4].picture.data = exp.github.text
                    /\ row[5].text = <<>>
                    /\ row[6].text = <<>>

\* a record of 100 experiments was built: its last row is numbered 100
C5_Witness ==
    /\ pc["A"] = "done"
    /\ status["A"] = 200
    /\ Len(data["A"].experiments) = 100
    /\ delivered["A"].table[101][1].text = <<"1", "0", "0">>
    /\ delivered["A"].table[13][1].text = <<"1", "2">>
    /\ delivered["A"].table[2][1].text = <<"0", "1">>

\* C6: the filename a successful response suggests is
\* <registerNumber>_Lab_Record.docx, without a directory.
C6_SuggestedFilename ==
    \A r \in Requests :
        (Answered(r) /\ status[r] = 200) =>
            /\ response[r].filename = data[r].register_number \o DocxSuffix
            /\ ~startswith(response[r].filename, TmpPrefix)

\* C7: of two requests with different register numbers that were in flight
\* together, neither read, overwrote or deleted a temporary file the other had
\* written, and each row's code image is the code of that request's own url.
C7_RequestsIndependent ==
    \A r \in Requests : \A s \in overlapped[r] :
        data[r].register_number # data[s].register_number =>
            /\ s \notin touched[r]
            /\ (Answered(r) /\ status[r] = 200) =>
                   \A i \in 1..Len(data[r].experiments) :
                       doc[r].table[i + 1][4].picture.data =
                           data[r].experiments[i].github.text

\* C8: an output document is only ever a file directly in /tmp, and a register
\* number with a path separator is never part of the path that is written.
C8_OutputDirectlyInTmp ==
    /\ \A k \in DOMAIN fs : fs[k].kind = "docx" => (Len(k) = 2 /\ k[1] = Tmp)
    /\ \A r \in Requests :
           (Answered(r) /\ HasSeparator(data[r].register_number)) =>
               \A k \in FilesBy(r) : fs[k].kind # "docx"

\* C9: whatever upload-logo calls there were, succeeding or failing, the logo
\* storage holds no college_logo.jpg and no college_logo.jpeg.
C9_OnlyCanonicalLogo ==
    /\ logo[Jpg] = NoFile
    /\ logo[Jpeg] = NoFile

Extension(filename) == lower(split(filename, ".")[Len(split(filename, "."))])

\* the latest upload came with a content type that is not image/*, or with a
\* filename whose extension is not png, jpg or jpeg
UploadNotAccepted ==
    /\ upload.status # 0
    /\ upload.content_type.given
    /\ \/ ~startswith(upload.content_type.v, ImagePrefix)
       \/ Extension(upload.filename) \notin {Png, Jpg, Jpeg}

\* C10: an upload whose content type is not image/* or whose extension is not
\* png, jpg or jpeg is answered with status 400, and leaves the logo storage
\* as it was.
C10_RejectedWith400 ==
    UploadNotAccepted => (upload.status = 400 /\ ~upload.changed)

====
